---- MODULE Spec2Model ----
(***************************************************************************)
(* A model of visplot.plot: the construction of the plot from its curves   *)
(* and labels, the hit test find_closest_line, and the selection state     *)
(* (selected_lines, hl_labels, colors, hl_colorset) driven by the key and  *)
(* mouse callbacks.                                                        *)
(*                                                                         *)
(* Conventions.  Python lists are sequences (positions 1..Len); numpy      *)
(* arrays are functions over 0..n-1, so that curve indices and columns     *)
(* keep the values they have in the code.  Data coordinates produced by    *)
(* the scene transform are fixed-point numbers in halves (the integer v    *)
(* stands for v/2), which is enough to make round() and int() differ from  *)
(* the identity; distances are compared by their squares.                  *)
(***************************************************************************)
EXTENDS Integers, Sequences, FiniteSets, TLC

VARIABLES
    phase,            \* "new": before plot(...), "run": constructed, "failed": __init__ raised
    icurves, ilabels, \* the arguments of plot(icurves, labels)
    shape_,           \* self.shape_
    labels,           \* self.labels
    pos,              \* self.line.pos : curve -> column -> <<x, y>>
    connect,          \* the connectivity table handed to scene.Line
    colors,           \* self.colors : 0..N*S-1 -> color
    backup_colors,    \* self.backup_colors : 0..N-1 -> color
    selected_lines,   \* self.selected_lines
    hl_labels,        \* self.hl_labels : sequence of <<curve_index, label>>
    hl_next,          \* number of colors drawn from self.hl_colorset so far
    ctrl_pressed, shift_pressed,
    init_x, init_y,   \* self.init_x, self.init_y (screen pixels)
    button,           \* history: TRUE while the mouse button is down
    press,            \* history: screen position of the latest mouse press
                      \* (button and press are kept by SpecPress alone)
    last,             \* history: what the latest mouse release (or call) did
    hist              \* history: the latest two direct calls, latest first, each
                      \* with selected_lines and hl_labels as they were before it

vars == <<phase, icurves, ilabels, shape_, labels, pos, connect, colors,
          backup_colors, selected_lines, hl_labels, hl_next, ctrl_pressed,
          shift_pressed, init_x, init_y, button, press, last, hist>>

-----------------------------------------------------------------------------
(* Program constants *)

MAX_HL == 12
LBL_POS_DEFAULTX == 170
LBL_POS_DEFAULTY == 40
LBL_SPACING == 16
radius == 10
rmin0 == 100
click_px == 3

(* Bounds of the model *)

MaxCurves == 2      \* 2-D inputs of the interactive model have 1..MaxCurves rows
NumSamples == 2     \* samples per curve in the interactive model
MaxPicks == 3       \* colors drawn from the palette in one run of the interactive model
CurveGap == 150     \* vertical distance between consecutive input curves

(* labels=None, and a supplied list of labels *)
None == [given |-> FALSE, list |-> <<>>]
Labels(l) == [given |-> TRUE, list |-> l]

-----------------------------------------------------------------------------
(* Arithmetic helpers *)

Min(a, b) == IF a < b THEN a ELSE b
Max(a, b) == IF a > b THEN a ELSE b
Abs(a) == IF a < 0 THEN -a ELSE a

(* The indices selected by the Python slice [start:stop] of a sequence of  *)
(* length n: a negative bound counts from the end, and both are clamped.   *)
PySliceBound(n, b) == IF b < 0 THEN Max(b + n, 0) ELSE Min(b, n)
PySlice(n, start, stop) ==
    { k \in 0..(n - 1) : PySliceBound(n, start) <= k /\ k < PySliceBound(n, stop) }

(* round(x) of a value given in halves: ties go to the even integer.       *)
PyRound(x2) ==
    LET q == x2 \div 2
    IN  IF x2 % 2 = 0 THEN q
        ELSE IF q % 2 = 0 THEN q ELSE q + 1

(* int(x) of a value given in halves: truncation toward zero.              *)
PyInt(x2) == IF x2 >= 0 THEN x2 \div 2 ELSE -((-x2) \div 2)

(* As np_roll, but the values shifted past an end are dropped and the      *)
(* freed places keep the value at that end: a shift without wrap-around.   *)
np_shift_no_wrap(a, n, d) == [k \in 0..(n - 1) |-> a[Max(0, Min(n - 1, k - d))]]

(* np.roll(a, d) of an array a over 0..n-1.                                *)
np_roll(a, n, d) == [k \in 0..(n - 1) |-> a[(k - d) % n]]

HexDigits == <<"0", "1", "2", "3", "4", "5", "6", "7",
               "8", "9", "a", "b", "c", "d", "e", "f">>

RECURSIVE HexStr(_)
HexStr(i) ==
    IF i < 16 THEN HexDigits[i + 1]
    ELSE HexStr(i \div 16) \o HexDigits[(i % 16) + 1]

(* f"0x{i:x}" *)
DefaultLabel(i) == "0x" \o HexStr(i)

-----------------------------------------------------------------------------
(* Construction: plot.__init__ *)

(* np.array(icurves).shape *)
np_shape(ic) ==
    IF ic.ndim = 1 THEN <<Len(ic.data)>>
    ELSE <<Len(ic.data), Len(ic.data[1])>>

(* np.linspace(start, stop, num)[n] as the exact fraction <<p, q>>, in     *)
(* thousandths.                                                            *)
linspace(start, stop, num, n) ==
    IF num = 1 THEN <<start, 1000>>
    ELSE <<start * (num - 1) + n * (stop - start), 1000 * (num - 1)>>

(* The color of curve n in the gradient of nb_traces curves.               *)
BaseColor(nb_traces, n) ==
    <<linspace(400, 400, nb_traces, n),
      linspace(500, 300, nb_traces, n),
      linspace(500, 300, nb_traces, n)>>

(* Entry k of the highlight palette, color.get_colormap(clrmap)[...][k].   *)
hl_colorset(k) == <<"hl", k>>

(* The assertion on the labels.                                            *)
LabelsAccepted(ic, lb) == ~lb.given \/ Len(lb.list) = np_shape(ic)[1]

(* curves after the 1-D case has been wrapped: rows 0..nb_traces-1.        *)
Rows(ic) == IF ic.ndim = 1 THEN <<ic.data>> ELSE ic.data
nb_traces_of(ic) == Len(Rows(ic))
size_of(ic) == Len(Rows(ic)[1])

xy_curves(ic) ==
    [n \in 0..(nb_traces_of(ic) - 1) |->
        [j \in 0..(size_of(ic) - 1) |-> <<j, Rows(ic)[n + 1][j + 1]>>]]

(* As connect_table, without the loop that unlinks the last point of a     *)
(* curve from the first point of the next.                                 *)
connect_all_successors(nb_traces, size) ==
    [k \in 0..(nb_traces * size - 2) |-> <<k, k + 1>>]

connect_table(nb_traces, size) ==
    [k \in 0..(nb_traces * size - 2) |->
        IF (k + 1) % size = 0 /\ (k + 1) \in size..(nb_traces * size - 1)
        THEN <<k, k>> ELSE <<k, k + 1>>]

-----------------------------------------------------------------------------
(* Hit test: plot.find_closest_line *)

(* Four times the squared Euclidean distance between the data point p and  *)
(* the click f (f in halves).                                              *)
Dist2(p, f) ==
    (2 * p[1] - f[1]) * (2 * p[1] - f[1]) + (2 * p[2] - f[2]) * (2 * p[2] - f[2])

(* self.line.pos[:, lo:hi] flattened in the order the two loops visit it:  *)
(* curve by curve, and within a curve column by column.                    *)
Window(linepos, lo, hi) ==
    LET N == Cardinality(DOMAIN linepos)
        w == IF hi > lo THEN hi - lo ELSE 0
    IN  [k \in 1..(N * w) |->
            <<(k - 1) \div w, linepos[(k - 1) \div w][lo + ((k - 1) % w)]>>]

RECURSIVE ScanWindow(_, _, _, _, _)
ScanWindow(tab, f, k, rmin2, imin) ==
    IF k > Len(tab) THEN imin
    ELSE LET t2 == Dist2(tab[k][2], f)
         IN  IF t2 < rmin2
             THEN ScanWindow(tab, f, k + 1, t2, tab[k][1])
             ELSE ScanWindow(tab, f, k + 1, rmin2, imin)

find_closest_line(x, y) ==
    LET rx == PyRound(x)
        S == Cardinality(DOMAIN pos[0])
        lo == PySliceBound(S, rx - radius)
        hi == PySliceBound(S, rx + radius)
    IN  ScanWindow(Window(pos, lo, hi), <<x, y>>, 1, (2 * rmin0) * (2 * rmin0), 0)

-----------------------------------------------------------------------------
(* Selection: the part of self that single_select and multiple_select      *)
(* change, as a record; raised = TRUE once a statement has raised, after   *)
(* which the rest of the handler is skipped and the changes made so far    *)
(* stay.                                                                   *)

Self ==
    [selected_lines |-> selected_lines, hl_labels |-> hl_labels,
     colors |-> colors, hl_next |-> hl_next, raised |-> FALSE]

Raise(st) == [st EXCEPT !.raised = TRUE]

_add_label(st, curve_index, new_color) ==
    IF st.raised THEN st
    ELSE IF (curve_index + 1) \notin DOMAIN labels THEN Raise(st)
    ELSE LET new_label ==
                 [text |-> labels[curve_index + 1],
                  color |-> new_color,
                  parent |-> "scene",
                  pos |-> <<LBL_POS_DEFAULTX,
                            LBL_POS_DEFAULTY + LBL_SPACING * Len(st.hl_labels)>>]
         IN  [st EXCEPT !.hl_labels = Append(@, <<curve_index, new_label>>)]

(* The 0-based index of the first entry for curve_index, -1 when           *)
(* list.index raises ValueError.                                           *)
_find_label_from_curve_index(lbls, curve_index) ==
    LET hits == { i \in 1..Len(lbls) : lbls[i][1] = curve_index }
    IN  IF hits = {} THEN -1
        ELSE (CHOOSE i \in hits : \A j \in hits : i <= j) - 1

(* As _del_label_from_curve_index, but the labels after the deleted one    *)
(* are redrawn from row 0: the offset idx is forgotten.                    *)
_del_label_rows_from_zero(st, curve_index) ==
    IF st.raised THEN st
    ELSE LET idx == _find_label_from_curve_index(st.hl_labels, curve_index)
             old == st.hl_labels
             kept == [i \in 1..(Len(old) - 1) |->
                         IF i <= idx THEN old[i] ELSE old[i + 1]]
             redrawn == [i \in 1..Len(kept) |->
                         IF i <= idx THEN kept[i]
                         ELSE <<kept[i][1],
                                [kept[i][2] EXCEPT !.pos =
                                    <<LBL_POS_DEFAULTX,
                                      LBL_POS_DEFAULTY + LBL_SPACING * (i - 1 - idx)>>]>>]
         IN  IF idx < 0 THEN Raise(st)
             ELSE [st EXCEPT !.hl_labels = redrawn]

_del_label_from_curve_index(st, curve_index) ==
    IF st.raised THEN st
    ELSE LET idx == _find_label_from_curve_index(st.hl_labels, curve_index)
             old == st.hl_labels
             kept == [i \in 1..(Len(old) - 1) |->
                         IF i <= idx THEN old[i] ELSE old[i + 1]]
             redrawn == [i \in 1..Len(kept) |->
                         IF i <= idx THEN kept[i]
                         ELSE <<kept[i][1],
                                [kept[i][2] EXCEPT !.pos =
                                    <<LBL_POS_DEFAULTX,
                                      LBL_POS_DEFAULTY + LBL_SPACING * (i - 1)>>]>>]
         IN  IF idx < 0 THEN Raise(st)
             ELSE [st EXCEPT !.hl_labels = redrawn]

_set_curve_color(st, n, new_color) ==
    IF st.raised THEN st
    ELSE IF Len(shape_) # 2 THEN Raise(st)
    ELSE LET S == shape_[2]
             a == n * S
             rng == PySlice(Cardinality(DOMAIN st.colors), a, a + S)
         IN  [st EXCEPT !.colors =
                 [k \in DOMAIN @ |-> IF k \in rng THEN new_color ELSE @[k]]]

(* As _restore_nth_curve_color, but the range starts at n, not at n * S.    *)
_restore_unscaled_offset(st, n) ==
    IF st.raised THEN st
    ELSE IF Len(shape_) # 2 THEN Raise(st)
    ELSE LET S == shape_[2]
             nnx == n
             rng == PySlice(Cardinality(DOMAIN st.colors), nnx, nnx + S)
         IN  [st EXCEPT !.colors =
                 [k \in DOMAIN @ |-> IF k \in rng THEN backup_colors[n] ELSE @[k]]]

_restore_nth_curve_color(st, n) ==
    IF st.raised THEN st
    ELSE IF Len(shape_) # 2 THEN Raise(st)
    ELSE LET S == shape_[2]
             nnx == n * S
             rng == PySlice(Cardinality(DOMAIN st.colors), nnx, nnx + S)
         IN  [st EXCEPT !.colors =
                 [k \in DOMAIN @ |-> IF k \in rng THEN backup_colors[n] ELSE @[k]]]

(* As RestoreAll, with the loop left out.                                  *)
RestoreNone(st, lines, k) == st

(* for line in self.selected_lines: self._restore_nth_curve_color(line)    *)
RECURSIVE RestoreAll(_, _, _)
RestoreAll(st, lines, k) ==
    IF k > Len(lines) THEN st
    ELSE RestoreAll(_restore_nth_curve_color(st, lines[k]), lines, k + 1)

(* list.remove(x): drops the first occurrence.                             *)
list_remove(l, x) ==
    LET first == CHOOSE i \in 1..Len(l) : l[i] = x /\ \A j \in 1..(i - 1) : l[j] # x
    IN  [i \in 1..(Len(l) - 1) |-> IF i < first THEN l[i] ELSE l[i + 1]]

single_select(st, curve_index) ==
    LET s1 == RestoreAll(st, st.selected_lines, 1)
        s2 == IF s1.raised THEN s1 ELSE [s1 EXCEPT !.hl_labels = <<>>]
        new_color == hl_colorset(s2.hl_next % MAX_HL)
        s3 == IF s2.raised THEN s2 ELSE [s2 EXCEPT !.hl_next = @ + 1]
        s4 == _add_label(s3, curve_index, new_color)
        s5 == IF s4.raised THEN s4 ELSE [s4 EXCEPT !.selected_lines = <<curve_index>>]
    IN  _set_curve_color(s5, curve_index, new_color)

(* As multiple_select, but without the test for an already selected       *)
(* curve: the curve is always added.                                       *)
multiple_select_appends(st, curve_index) ==
    IF Len(shape_) # 2 THEN Raise(st)
    ELSE LET new_color == hl_colorset(st.hl_next % MAX_HL)
             s1 == [st EXCEPT !.hl_next = @ + 1]
             s2 == _add_label(s1, curve_index, new_color)
             s3 == IF s2.raised THEN s2
                   ELSE [s2 EXCEPT !.selected_lines = Append(@, curve_index)]
         IN  _set_curve_color(s3, curve_index, new_color)

multiple_select(st, curve_index) ==
    IF \E i \in 1..Len(st.selected_lines) : st.selected_lines[i] = curve_index
    THEN LET s1 == _del_label_from_curve_index(st, curve_index)
             s2 == _restore_nth_curve_color(s1, curve_index)
         IN  IF s2.raised THEN s2
             ELSE [s2 EXCEPT !.selected_lines = list_remove(@, curve_index)]
    ELSE IF Len(shape_) # 2 THEN Raise(st)
    ELSE LET new_color == hl_colorset(st.hl_next % MAX_HL)
             s1 == [st EXCEPT !.hl_next = @ + 1]
             s2 == _add_label(s1, curve_index, new_color)
             s3 == IF s2.raised THEN s2
                   ELSE [s2 EXCEPT !.selected_lines = Append(@, curve_index)]
         IN  _set_curve_color(s3, curve_index, new_color)

-----------------------------------------------------------------------------
(* The inputs of the interactive model *)

(* One curve as a 1-D sequence, and n curves as a 2-D array: curve i runs  *)
(* CurveGap above curve i-1 and rises by one unit per sample.              *)
Curve1D == [ndim |-> 1, data |-> [j \in 1..NumSamples |-> j - 1]]
Curves2D(n) ==
    [ndim |-> 2,
     data |-> [i \in 1..n |-> [j \in 1..NumSamples |-> CurveGap * (i - 1) + (j - 1)]]]
CurveInputs == {Curve1D} \cup { Curves2D(n) : n \in 1..MaxCurves }

UserLabel(i) == "trace" \o HexStr(i)
UserLabels(k) == Labels([i \in 1..k |-> UserLabel(i)])

(* The default labels, and one label per row of np.array(icurves).         *)
LabelInputs(ic) == {None, UserLabels(np_shape(ic)[1])}

(* The interactive model builds the 1-D curve with the default labels and  *)
(* the 2-D arrays with one label per curve.                                *)
PlotInputs ==
    { <<ic, IF ic.ndim = 1 THEN None ELSE UserLabels(np_shape(ic)[1])>> : ic \in CurveInputs }

(* The scene transform tr.map of the pan/zoom camera, screen pixels to     *)
(* data coordinates in halves: half a data unit per pixel column, px_y     *)
(* halves per pixel row, the row of y = 0 at view_row and y growing        *)
(* upward.                                                                 *)
px_y == 100
view_row == click_px * MaxCurves
tr_map(p) == <<p[1], (view_row - p[2]) * px_y>>

(* The pixels the mouse events happen at: on the row of curve 0 at the     *)
(* columns less than click_px away from column 0, and at column 0 on the   *)
(* row of each curve and one row spacing below curve 0.                    *)
Positions ==
    { <<px, view_row>> : px \in 0..(click_px - 1) }
        \cup { <<0, view_row - click_px * n>> : n \in (-1)..(MaxCurves - 1) }

(* The keys the handlers test for; any other key changes nothing.          *)
Keys == {"Control", "Shift"}

NoOp == [op |-> "none", arg |-> -1, at |-> -1, raised |-> FALSE]

-----------------------------------------------------------------------------
(* Actions *)

(* Before plot(...) runs: nothing of self exists yet.                      *)
Blank ==
    /\ phase = "new"
    /\ shape_ = <<>>
    /\ labels = <<>>
    /\ pos = <<>>
    /\ connect = <<>>
    /\ colors = <<>>
    /\ backup_colors = <<>>
    /\ selected_lines = <<>>
    /\ hl_labels = <<>>
    /\ hl_next = 0
    /\ ctrl_pressed = FALSE
    /\ shift_pressed = FALSE
    /\ init_x = -1      \* not set before the first mouse press, and not read
    /\ init_y = -1
    /\ button = FALSE
    /\ press = <<>>
    /\ last = NoOp
    /\ hist = <<>>

Init ==
    /\ \E args \in PlotInputs : icurves = args[1] /\ ilabels = args[2]
    /\ Blank

(* plot.__init__(icurves, labels) *)
Construct ==
    /\ phase = "new"
    /\ UNCHANGED hist
    /\ shape_' = np_shape(icurves)
    /\ IF ~LabelsAccepted(icurves, ilabels)
       THEN /\ phase' = "failed"
            /\ last' = [NoOp EXCEPT !.op = "__init__", !.raised = TRUE]
            /\ UNCHANGED <<labels, pos, connect, colors, backup_colors>>
       ELSE LET nb_traces == nb_traces_of(icurves)
                size == size_of(icurves)
            IN  /\ phase' = "run"
                /\ last' = [NoOp EXCEPT !.op = "__init__"]
                /\ labels' = IF ilabels.given THEN ilabels.list
                             ELSE [i \in 1..np_shape(icurves)[1] |-> DefaultLabel(i - 1)]
                /\ pos' = xy_curves(icurves)
                /\ connect' = connect_table(nb_traces, size)
                /\ colors' = [k \in 0..(nb_traces * size - 1) |->
                                 BaseColor(nb_traces, k \div size)]
                /\ backup_colors' = [n \in 0..(nb_traces - 1) |-> BaseColor(nb_traces, n)]
    /\ UNCHANGED <<icurves, ilabels, selected_lines, hl_labels, hl_next, ctrl_pressed,
                   shift_pressed, init_x, init_y, button, press>>

on_key_press(key) ==
    /\ phase = "run"
    /\ UNCHANGED hist
    /\ ctrl_pressed' = IF key = "Control" THEN TRUE ELSE ctrl_pressed
    /\ shift_pressed' = IF key = "Shift" THEN TRUE ELSE shift_pressed
    /\ UNCHANGED <<phase, icurves, ilabels, shape_, labels, pos, connect, colors,
                   backup_colors, selected_lines, hl_labels, hl_next, init_x, init_y,
                   button, press, last>>

on_key_release(key) ==
    /\ phase = "run"
    /\ UNCHANGED hist
    /\ ctrl_pressed' = IF key = "Control" THEN FALSE ELSE ctrl_pressed
    /\ shift_pressed' = IF key = "Shift" THEN FALSE ELSE shift_pressed
    /\ UNCHANGED <<phase, icurves, ilabels, shape_, labels, pos, connect, colors,
                   backup_colors, selected_lines, hl_labels, hl_next, init_x, init_y,
                   button, press, last>>

mouse_press(p) ==
    /\ phase = "run"
    /\ UNCHANGED hist
    /\ init_x' = p[1]
    /\ init_y' = p[2]
    /\ UNCHANGED <<phase, icurves, ilabels, shape_, labels, pos, connect, colors,
                   backup_colors, selected_lines, hl_labels, hl_next, ctrl_pressed,
                   shift_pressed, last>>

on_mouse_press(p) == mouse_press(p) /\ UNCHANGED <<button, press>>

(* As RollAll, but np.roll is applied to the points of the curve, X and Y  *)
(* together, not to the Y column.                                          *)
RECURSIVE RollPoints(_, _, _, _)
RollPoints(linepos, lines, k, delta_x) ==
    IF k > Len(lines) THEN linepos
    ELSE LET l == lines[k]
             S == Cardinality(DOMAIN linepos[l])
         IN  RollPoints([linepos EXCEPT ![l] = np_roll(@, S, delta_x)],
                        lines, k + 1, delta_x)

(* As RollAll, but the loop stops after the first selected curve.          *)
RECURSIVE RollFirstOnly(_, _, _, _)
RollFirstOnly(linepos, lines, k, delta_x) ==
    IF k > Min(1, Len(lines)) THEN linepos
    ELSE LET l == lines[k]
             S == Cardinality(DOMAIN linepos[l])
             ys == np_roll([j \in 0..(S - 1) |-> linepos[l][j][2]], S, delta_x)
         IN  RollFirstOnly([linepos EXCEPT ![l] = [j \in 0..(S - 1) |-> <<@[j][1], ys[j]>>]],
                           lines, k + 1, delta_x)

(* for l in self.selected_lines: pos[l][:,1] = np.roll(pos[l][:,1], d)     *)
RECURSIVE RollAll(_, _, _, _)
RollAll(linepos, lines, k, delta_x) ==
    IF k > Len(lines) THEN linepos
    ELSE LET l == lines[k]
             S == Cardinality(DOMAIN linepos[l])
             ys == np_roll([j \in 0..(S - 1) |-> linepos[l][j][2]], S, delta_x)
         IN  RollAll([linepos EXCEPT ![l] = [j \in 0..(S - 1) |-> <<@[j][1], ys[j]>>]],
                     lines, k + 1, delta_x)

mouse_move(p) ==
    /\ phase = "run"
    /\ IF shift_pressed /\ Len(selected_lines) > 0
       THEN LET x == tr_map(p)[1]
                ix == tr_map(<<init_x, init_y>>)[1]
                delta_x == PyInt(x - ix)
            IN  /\ pos' = RollAll(pos, selected_lines, 1, delta_x)
                /\ init_x' = p[1]
                /\ init_y' = p[2]
       ELSE UNCHANGED <<pos, init_x, init_y>>
    /\ UNCHANGED <<phase, icurves, ilabels, shape_, labels, connect, colors,
                   backup_colors, selected_lines, hl_labels, hl_next, ctrl_pressed,
                   shift_pressed, button, press, last>>

on_mouse_move(p) == mouse_move(p) /\ UNCHANGED hist

(* As moving_traces, but a release with Control held is not ignored.       *)
moving_traces_without_ctrl == shift_pressed /\ ~ctrl_pressed

(* "ignore release when moving traces"                                     *)
moving_traces == shift_pressed

(* "if released more than 3 pixels away from click (i.e. dragging), ignore" *)
is_click(p) == Abs(p[1] - init_x) < click_px /\ Abs(p[2] - init_y) < click_px

(* What a release at pixel p does to the selection: the operation it ends  *)
(* in, the curve it acts on, and the selection after it.                   *)
ReleaseOutcome(p) ==
    IF moving_traces
    THEN [op |-> "moving", arg |-> -1, at |-> -1, st |-> Self]
    ELSE IF init_x = -1     \* AttributeError: no mouse press has set self.init_x
    THEN [op |-> "no_press", arg |-> -1, at |-> -1, st |-> Raise(Self)]
    ELSE IF ~is_click(p)
    THEN [op |-> "dragging", arg |-> -1, at |-> -1, st |-> Self]
    ELSE LET xy == tr_map(p)
             closest_line == find_closest_line(xy[1], xy[2])
         IN  IF ctrl_pressed
             THEN [op |-> "multiple_select", arg |-> closest_line,
                   at |-> _find_label_from_curve_index(hl_labels, closest_line),
                   st |-> multiple_select(Self, closest_line)]
             ELSE [op |-> "single_select", arg |-> closest_line, at |-> -1,
                   st |-> single_select(Self, closest_line)]

mouse_release(p) ==
    /\ phase = "run"
    /\ UNCHANGED hist
    /\ LET r == ReleaseOutcome(p)
       IN  /\ r.st.hl_next <= MaxPicks
           /\ selected_lines' = r.st.selected_lines
           /\ hl_labels' = r.st.hl_labels
           /\ colors' = r.st.colors
           /\ hl_next' = r.st.hl_next
           /\ last' = [op |-> r.op, arg |-> r.arg, at |-> r.at,
                       raised |-> r.st.raised]
    /\ UNCHANGED <<phase, icurves, ilabels, shape_, labels, pos, connect,
                   backup_colors, ctrl_pressed, shift_pressed, init_x, init_y>>

on_mouse_release(p) == mouse_release(p) /\ UNCHANGED <<button, press>>

(* The state functions the properties are stated with: the number of      *)
(* curves and of samples per curve of the constructed plot, and the part   *)
(* of the color buffer that belongs to curve n.                            *)
nb_traces == Cardinality(DOMAIN backup_colors)
size == Cardinality(DOMAIN pos[0])
Curves == 0..(nb_traces - 1)
CurveRange(n) == (n * size)..(n * size + size - 1)
Selected(c) == \E i \in 1..Len(selected_lines) : selected_lines[i] = c

Next ==
    \/ Construct
    \/ \E key \in Keys : on_key_press(key)
    \/ \E key \in Keys : on_key_release(key)
    \/ \E p \in Positions : on_mouse_press(p)
    \/ \E p \in Positions : on_mouse_move(p)
    \/ \E p \in Positions : on_mouse_release(p)

Spec == Init /\ [][Next]_vars

-----------------------------------------------------------------------------
(* The interactive model with the mouse button followed: a press happens   *)
(* with the button up and is remembered, a release with the button down.   *)

ButtonDown(p) ==
    /\ ~button
    /\ mouse_press(p)
    /\ button' = TRUE
    /\ press' = p

ButtonUp(p) ==
    /\ button
    /\ mouse_release(p)
    /\ button' = FALSE
    /\ UNCHANGED press

NextPress ==
    \/ Construct
    \/ \E key \in Keys : on_key_press(key)
    \/ \E key \in Keys : on_key_release(key)
    \/ \E p \in Positions : ButtonDown(p)
    \/ \E p \in Positions : on_mouse_move(p)
    \/ \E p \in Positions : ButtonUp(p)

SpecPress == Init /\ [][NextPress]_vars

-----------------------------------------------------------------------------
(* Construction alone, over inputs of every shape and label lists of       *)
(* every length, matching or not.                                          *)

NewCurves == 3      \* 2-D inputs have 1..NewCurves rows
NewSamples == 3     \* curves have 1..NewSamples samples
NewLabels == 4      \* supplied label lists have 0..NewLabels entries

NewCurveInputs ==
    { [ndim |-> 1, data |-> [j \in 1..s |-> j - 1]] : s \in 1..NewSamples }
        \cup { [ndim |-> 2,
                data |-> [i \in 1..n |-> [j \in 1..s |-> CurveGap * (i - 1) + (j - 1)]]] :
               n \in 1..NewCurves, s \in 1..NewSamples }

InitNew ==
    /\ icurves \in NewCurveInputs
    /\ ilabels \in {None} \cup { UserLabels(k) : k \in 0..NewLabels }
    /\ Blank

NextNew == Construct

SpecNew == InitNew /\ [][NextNew]_vars

-----------------------------------------------------------------------------
(* The selection operations called directly, on plots of up to SelCurves   *)
(* curves.                                                                 *)

SelCurves == 3      \* 2-D inputs have 1..SelCurves rows
SelPicks == 4       \* colors drawn from the palette in one run

InitSel ==
    /\ icurves \in {Curve1D} \cup { Curves2D(n) : n \in 1..SelCurves }
    /\ ilabels \in LabelInputs(icurves)
    /\ Blank

(* A fresh call on the state a previous call left, whether it raised or not *)
Returned(st) == [st EXCEPT !.raised = FALSE]

Call(op, c, st) ==
    /\ phase = "run"
    /\ st.hl_next <= SelPicks
    /\ selected_lines' = st.selected_lines
    /\ hl_labels' = st.hl_labels
    /\ colors' = st.colors
    /\ hl_next' = st.hl_next
    /\ last' = [op |-> op, arg |-> c,
                at |-> IF op = "multiple_select"
                       THEN _find_label_from_curve_index(hl_labels, c) ELSE -1,
                raised |-> st.raised]
    /\ hist' = SubSeq(<<[call |-> last', sel |-> selected_lines, lbl |-> hl_labels]>>
                          \o hist, 1, Min(2, Len(hist) + 1))
    /\ UNCHANGED <<phase, icurves, ilabels, shape_, labels, pos, connect,
                   backup_colors, ctrl_pressed, shift_pressed, init_x, init_y,
                   button, press>>

CallSingleSelect(c) == Call("single_select", c, single_select(Self, c))
CallMultipleSelect(c) == Call("multiple_select", c, multiple_select(Self, c))

NextSel ==
    \/ Construct
    \/ \E c \in Curves : CallSingleSelect(c)
    \/ \E c \in Curves : CallMultipleSelect(c)

SpecSel == InitSel /\ [][NextSel]_vars

-----------------------------------------------------------------------------
(* The hit test alone, on curves long enough for the window of columns     *)
(* around the click to be a proper part of them.                           *)

HitCurves == 2      \* the input has HitCurves rows
HitSamples == 24    \* of HitSamples samples each
HitGap == 60        \* HitGap apart
HitRows == 2        \* clicks happen at heights -HitGap/2, 0, HitGap/2, .., up to HitRows * HitGap

HitInput ==
    [ndim |-> 2,
     data |-> [i \in 1..HitCurves |->
                  [j \in 1..HitSamples |-> HitGap * (i - 1) + ((j - 1) % 3)]]]

InitHit ==
    /\ icurves = HitInput
    /\ ilabels = None
    /\ Blank

(* find_closest_line(x, y) for a click at x, y (in halves) *)
CallFindClosestLine(x, y) ==
    /\ phase = "run"
    /\ UNCHANGED hist
    /\ last' = [op |-> "find_closest_line", arg |-> find_closest_line(x, y),
                at |-> -1, raised |-> FALSE, x |-> x, y |-> y]
    /\ UNCHANGED <<phase, icurves, ilabels, shape_, labels, pos, connect, colors,
                   backup_colors, selected_lines, hl_labels, hl_next, ctrl_pressed,
                   shift_pressed, init_x, init_y, button, press>>

HitXs == 0..(2 * (HitSamples - 1))
HitYs == { HitGap * k : k \in (-1)..(2 * HitRows - 1) }

NextHit ==
    \/ Construct
    \/ \E x \in HitXs, y \in HitYs : CallFindClosestLine(x, y)

SpecHit == InitHit /\ [][NextHit]_vars

-----------------------------------------------------------------------------
(* Dragging: curves of DragSamples samples, selected by clicks and then    *)
(* moved by up to DragMoves mouse-move events between pixel columns        *)
(* 0..DragReach; hist keeps the delta of each of these moves, latest       *)
(* first.                                                                  *)

DragSamples == 3    \* samples per curve of the 2-D input, one more than of the 1-D input
DragReach == 4      \* mouse events happen at pixel columns 0..DragReach
DragMoves == 2      \* rotating mouse moves followed in one run

DragInputs ==
    { [ndim |-> 1, data |-> [j \in 1..(DragSamples - 1) |-> j - 1]],
      [ndim |-> 2,
       data |-> [i \in 1..MaxCurves |->
                    [j \in 1..DragSamples |-> CurveGap * (i - 1) + (j - 1)]]] }

InitDrag ==
    /\ icurves \in DragInputs
    /\ ilabels = None
    /\ Blank

(* The pixels of the drag events: along the row of curve 0, and column 0   *)
(* on the row of curve 1.                                                  *)
DragPositions ==
    { <<px, view_row>> : px \in 0..DragReach } \cup { <<0, view_row - click_px>> }

(* int(x - init_x) as on_mouse_move computes it for an event at pixel p    *)
delta_x_of(p) == PyInt(tr_map(p)[1] - tr_map(<<init_x, init_y>>)[1])

(* A release before the first followed move: the selection is made first.  *)
DragRelease(p) == hist = <<>> /\ on_mouse_release(p)

DragMove(p) ==
    /\ mouse_move(p)
    /\ IF shift_pressed /\ Len(selected_lines) > 0
       THEN /\ Len(hist) < DragMoves
            /\ hist' = <<[delta_x |-> delta_x_of(p)]>> \o hist
       ELSE UNCHANGED hist

NextDrag ==
    \/ Construct
    \/ \E key \in Keys : on_key_press(key)
    \/ \E key \in Keys : on_key_release(key)
    \/ \E p \in DragPositions : on_mouse_press(p)
    \/ \E p \in DragPositions : DragRelease(p)
    \/ \E p \in DragPositions : DragMove(p)

SpecDrag == InitDrag /\ [][NextDrag]_vars

-----------------------------------------------------------------------------
(* Properties *)

(* The number of curves of an input: 1 for a 1-D input, the number of rows *)
(* for a 2-D input.                                                        *)
NumberOfCurves(ic) == IF ic.ndim = 1 THEN 1 ELSE Len(ic.data)

(* C1: with labels supplied, construction succeeds if and only if          *)
(* len(labels) equals the number of curves, 1 for a 1-D input and N for a  *)
(* 2-D input; otherwise it fails on the assertion.                         *)
C1_ConstructionIffLabelsMatch ==
    (phase # "new" /\ ilabels.given) =>
        (phase = "run" <=> Len(ilabels.list) = NumberOfCurves(icurves))

(* C2: find_closest_line returns the lowest curve index that owns a point  *)
(* of minimum distance to the click among the points of all curves in the  *)
(* columns rx-10 .. rx+10 that exist, whenever that minimum is below 100.  *)
C2_ClosestInClippedWindow ==
    last.op = "find_closest_line" =>
        LET f == <<last.x, last.y>>
            rx == PyRound(last.x)
            cols == { j \in 0..(size - 1) : rx - radius <= j /\ j <= rx + radius }
            pts == Curves \X cols
            d(q) == Dist2(pos[q[1]][q[2]], f)
        IN  \A q \in pts :
                (d(q) < (2 * rmin0) * (2 * rmin0) /\ \A r \in pts : d(q) <= d(r)) =>
                    /\ last.arg <= q[1]
                    /\ \E j \in cols : d(<<last.arg, j>>) = d(q)

(* C3: after single_select(c), selected_lines is [c], hl_labels has        *)
(* exactly one entry, for curve c at the base row, the color range of      *)
(* curve c holds the palette color just drawn, and the color range of      *)
(* every other curve holds its backup color.                               *)
C3_SingleSelectResult ==
    last.op = "single_select" =>
        LET c == last.arg
        IN  /\ selected_lines = <<c>>
            /\ Len(hl_labels) = 1
            /\ hl_labels[1][1] = c
            /\ hl_labels[1][2].pos = <<LBL_POS_DEFAULTX, LBL_POS_DEFAULTY>>
            /\ \A k \in CurveRange(c) : colors[k] = hl_colorset((hl_next - 1) % MAX_HL)
            /\ \A n \in Curves \ {c} : \A k \in CurveRange(n) : colors[k] = backup_colors[n]

(* C6: between events hl_labels and selected_lines have the same length    *)
(* and list the same curve indices in the same order.                      *)
C6_LabelsFollowSelection ==
    /\ Len(hl_labels) = Len(selected_lines)
    /\ \A i \in 1..Len(hl_labels) : hl_labels[i][1] = selected_lines[i]

(* C7: between events the color range of every selected curve is uniform   *)
(* and holds a color of the highlight palette, not the curve's backup      *)
(* color, for plots built from a 2-D input and from a single 1-D curve.    *)
C7_SelectedCurvesHighlighted ==
    \A i \in 1..Len(selected_lines) :
        LET n == selected_lines[i]
        IN  /\ \A k \in CurveRange(n) : colors[k] = colors[n * size]
            /\ \E h \in 0..(MAX_HL - 1) : colors[n * size] = hl_colorset(h)
            /\ colors[n * size] # backup_colors[n]

(* C4: for a curve c that is not selected, multiple_select(c) followed at  *)
(* once by multiple_select(c) returns selected_lines and hl_labels (curve  *)
(* indices, order and rows) to their values before the first call, and     *)
(* leaves the color range of curve c at its backup color.                  *)
C4_ToggleTwiceRestores ==
    phase = "run" =>
        \A c \in Curves :
            ~Selected(c) =>
                LET s1 == multiple_select(Self, c)
                    s2 == multiple_select(Returned(s1), c)
                IN  /\ s2.selected_lines = selected_lines
                    /\ s2.hl_labels = hl_labels
                    /\ \A k \in CurveRange(c) : s2.colors[k] = backup_colors[c]

(* The latest two calls were multiple_select(c) adding c to a selection    *)
(* of other curves and multiple_select(c) removing it again, and           *)
(* selected_lines and hl_labels are what they were before the first.       *)
C4_Witness ==
    /\ Len(shape_) = 2 /\ Len(hist) = 2
    /\ hist[2].call.op = "multiple_select" /\ hist[2].call.at < 0
    /\ hist[1].call.op = "multiple_select" /\ hist[1].call.at >= 0
    /\ hist[1].call.arg = hist[2].call.arg
    /\ ~hist[1].call.raised /\ ~hist[2].call.raised
    /\ Len(hist[2].sel) >= 2
    /\ selected_lines = hist[2].sel
    /\ hl_labels = hist[2].lbl

(* C5: in every state reached by single_select and multiple_select calls,  *)
(* removals from the middle of the list included, the label at position i  *)
(* (from 0) of hl_labels is placed at                                      *)
(* (LBL_POS_DEFAULTX, LBL_POS_DEFAULTY + LBL_SPACING * i).                 *)
C5_LabelsStacked ==
    \A i \in 1..Len(hl_labels) :
        hl_labels[i][2].pos =
            <<LBL_POS_DEFAULTX, LBL_POS_DEFAULTY + LBL_SPACING * (i - 1)>>

(* A label has just been removed from the middle of the list: labels stay  *)
(* before and after the place it had.                                      *)
C5_Witness ==
    /\ last.op = "multiple_select" /\ ~last.raised
    /\ last.at >= 1 /\ last.at < Len(hl_labels)

(* The release position differs from the position of the latest press by   *)
(* 3 pixels or more, in x or in y.                                         *)
FarFromPress(p) ==
    Abs(p[1] - press[1]) >= click_px \/ Abs(p[2] - press[2]) >= click_px

(* C8: a release 3 pixels or more away (in x or in y) from the preceding   *)
(* press, with Shift not held, changes nothing in selected_lines,          *)
(* hl_labels and colors, whatever key and move events came in between.     *)
C8_ReleaseAwayFromPressIgnored ==
    [][\A p \in Positions :
          (~shift_pressed /\ ButtonUp(p) /\ FarFromPress(p)) =>
              UNCHANGED <<selected_lines, hl_labels, colors>>]_vars

(* C9: a release while Shift is held leaves selected_lines, hl_labels,     *)
(* colors and the palette cursor unchanged, wherever it happens and        *)
(* whether or not Control is held too: a step changes one of them only if  *)
(* it is not a release with Shift held.                                    *)
C9_ReleaseWithShiftIgnored ==
    [][\/ UNCHANGED <<selected_lines, hl_labels, colors, hl_next>>
       \/ ~(shift_pressed /\ \E p \in Positions : on_mouse_release(p))]_vars

(* The latest release happened with Shift held, and Shift and Control are  *)
(* held, on a 2-D plot with two curves selected.                           *)
C9_Witness ==
    /\ Len(shape_) = 2
    /\ last.op = "moving"
    /\ shift_pressed /\ ctrl_pressed
    /\ Len(selected_lines) > 1

(* No point of any curve lies within distance 100 of the data point f.     *)
NoPointWithinReach(f) ==
    \A n \in Curves : \A j \in 0..(size - 1) :
        Dist2(pos[n][j], f) >= (2 * rmin0) * (2 * rmin0)

(* C10: when no point of any curve lies within distance 100 of the click,  *)
(* a click release selects, deselects and recolors nothing.                *)
C10_FarClickChangesNothing ==
    [][\A p \in Positions :
          (on_mouse_release(p) /\ NoPointWithinReach(tr_map(p))) =>
              UNCHANGED <<selected_lines, hl_labels, colors>>]_vars

(* The Y-values of curve l, and their cyclic rotation by d places.         *)
YValues(linepos, l) == [j \in DOMAIN linepos[l] |-> linepos[l][j][2]]
Rotated(ys, d) ==
    LET S == Cardinality(DOMAIN ys) IN [k \in DOMAIN ys |-> ys[(k - d) % S]]

RECURSIVE SumDeltas(_, _)
SumDeltas(h, k) == IF k > Len(h) THEN 0 ELSE h[k].delta_x + SumDeltas(h, k + 1)

(* C12: drag rotations by d1 and then d2 leave the Y-values of a dragged   *)
(* curve equal to one cyclic rotation by (d1 + d2) mod S of the original;  *)
(* a rotation by d followed by one by -d restores the original.            *)
C12_RotationsCompose ==
    (phase = "run" /\ Len(hist) >= 1) =>
        \A i \in 1..Len(selected_lines) :
            LET l == selected_lines[i]
                S == Cardinality(DOMAIN pos[l])
            IN  YValues(pos, l) =
                    Rotated(YValues(xy_curves(icurves), l), SumDeltas(hist, 1) % S)

(* Two curves have been dragged twice, forward by more than one place and  *)
(* then backward, and they are not back at their original values.          *)
C12_Witness ==
    /\ Len(hist) = 2 /\ Len(selected_lines) = 2
    /\ hist[2].delta_x > 1 /\ hist[1].delta_x < 0
    /\ (hist[1].delta_x + hist[2].delta_x) % DragSamples # 0
    /\ YValues(pos, selected_lines[1]) # YValues(xy_curves(icurves), selected_lines[1])

(* The X-values of curve l.                                                *)
XValues(linepos, l) == [j \in DOMAIN linepos[l] |-> linepos[l][j][1]]

Without(l, c) == SelectSeq(l, LAMBDA x : x # c)

(* The curve indices of a list of labels.                                  *)
LabelCurves(lbls) == [i \in 1..Len(lbls) |-> lbls[i][1]]

(* C11: a click release with Control held toggles the clicked curve c.     *)
(* When c is selected it is removed from selected_lines, its label is      *)
(* deleted, its color range is restored to its backup color, and the       *)
(* other selected curves keep their order and colors.  When c is not       *)
(* selected it is appended to selected_lines and hl_labels with the next   *)
(* palette color, and no other curve is changed.                           *)
C11_ControlClickToggles ==
    [][\A p \in Positions :
          (/\ ctrl_pressed /\ ~shift_pressed
           /\ init_x # -1 /\ is_click(p)
           /\ on_mouse_release(p)) =>
              LET c == find_closest_line(tr_map(p)[1], tr_map(p)[2])
                  new_color == hl_colorset(hl_next % MAX_HL)
                  others_kept ==
                      \A n \in Curves \ {c} : \A k \in CurveRange(n) : colors'[k] = colors[k]
              IN  IF Selected(c)
                  THEN /\ selected_lines' = Without(selected_lines, c)
                       /\ LabelCurves(hl_labels') = Without(LabelCurves(hl_labels), c)
                       /\ \A k \in CurveRange(c) : colors'[k] = backup_colors[c]
                       /\ others_kept
                  ELSE /\ selected_lines' = Append(selected_lines, c)
                       /\ LabelCurves(hl_labels') = Append(LabelCurves(hl_labels), c)
                       /\ hl_labels'[Len(hl_labels')][2].color = new_color
                       /\ \A k \in CurveRange(c) : colors'[k] = new_color
                       /\ others_kept]_vars

(* C14: every single-select and every multi-select that adds a curve draws *)
(* exactly one color from the palette, a multi-select that removes a curve *)
(* draws none, and the k-th drawing operation since construction assigns   *)
(* palette color (k - 1) mod 12 to the curve and to its label (hl_next     *)
(* is the number of colors drawn so far, k - 1).                           *)
C14_OneCursorOverPalette ==
    [][\A p \in Positions :
          (/\ ~shift_pressed
           /\ init_x # -1 /\ is_click(p)
           /\ on_mouse_release(p)) =>
              LET c == find_closest_line(tr_map(p)[1], tr_map(p)[2])
              IN  IF ctrl_pressed /\ Selected(c)
                  THEN hl_next' = hl_next
                  ELSE /\ hl_next' = hl_next + 1
                       /\ Len(hl_labels') >= 1
                       /\ hl_labels'[Len(hl_labels')][2].color = hl_colorset(hl_next % MAX_HL)
                       /\ \A k \in CurveRange(c) :
                              colors'[k] = hl_colorset(hl_next % MAX_HL)]_vars

(* C15 as claimed: the curve data and backup_colors are fixed at           *)
(* construction; no sequence of key and mouse events changes a sample      *)
(* value of a curve or an entry of backup_colors.                          *)
C15_DataAndBackupFixed ==
    phase = "run" =>
        /\ pos = xy_curves(icurves)
        /\ backup_colors = [n \in Curves |-> BaseColor(nb_traces, n)]

(* C15 as amended: backup_colors and the X-values of the curves are fixed  *)
(* at construction, and the Y-values of every curve are at all times a     *)
(* cyclic rotation of the Y-values it was constructed with.                *)
C15_BackupFixedDataRotated ==
    phase = "run" =>
        /\ backup_colors = [n \in Curves |-> BaseColor(nb_traces, n)]
        /\ \A l \in Curves :
               /\ XValues(pos, l) = XValues(xy_curves(icurves), l)
               /\ \E d \in 0..(size - 1) :
                      YValues(pos, l) = Rotated(YValues(xy_curves(icurves), l), d)

(* A drag has left a selected curve with other Y-values than it was        *)
(* constructed with, on a plot with two curves selected.                   *)
C15_Witness ==
    /\ phase = "run" /\ Len(selected_lines) = 2
    /\ \E l \in Curves :
           Selected(l) /\ YValues(pos, l) # YValues(xy_curves(icurves), l)

(* C16: the connectivity table built at construction has N*S-1 rows; row k *)
(* is (k, k+1) when point k is not the last sample of its curve and (k, k) *)
(* when it is, so that no row links points of two curves.                  *)
C16_ConnectWithinCurves ==
    phase = "run" =>
        /\ DOMAIN connect = 0..(nb_traces * size - 2)
        /\ Cardinality(DOMAIN connect) = nb_traces * size - 1
        /\ \A k \in DOMAIN connect :
               /\ connect[k] = IF k % size # size - 1 THEN <<k, k + 1>> ELSE <<k, k>>
               /\ connect[k][1] \div size = connect[k][2] \div size

(* A plot of several curves of several samples has been constructed: the   *)
(* table has a row for a point inside a curve and a row for the last       *)
(* point of a curve that another curve follows.                            *)
C16_Witness ==
    /\ phase = "run" /\ nb_traces >= 3 /\ size >= 2
    /\ connect[size - 2] = <<size - 2, size - 1>>
    /\ connect[2 * size - 1] = <<2 * size - 1, 2 * size - 1>>

(* C17: between events the whole color range of every curve that is not   *)
(* selected holds the curve's backup color.                                *)
C17_UnselectedCurvesRestored ==
    phase = "run" =>
        \A n \in Curves :
            ~Selected(n) => \A k \in CurveRange(n) : colors[k] = backup_colors[n]

(* A click without modifiers has just selected one curve of a plot of two *)
(* on which a selection had been made before: the palette has been drawn   *)
(* from more than once and one of the two curves is not selected.          *)
C17_Witness ==
    /\ Len(shape_) = 2 /\ nb_traces = 2
    /\ last.op = "single_select" /\ ~last.raised
    /\ hl_next >= 2
    /\ \E n \in Curves : ~Selected(n)

(* C18: selected_lines holds no curve index twice and hl_labels at most    *)
(* one entry per curve index.                                              *)
C18_NoCurveTwice ==
    /\ \A i, j \in 1..Len(selected_lines) :
           selected_lines[i] = selected_lines[j] => i = j
    /\ \A i, j \in 1..Len(hl_labels) :
           hl_labels[i][1] = hl_labels[j][1] => i = j

(* A Control-click has just added a curve to the selection again after it  *)
(* had been removed from it: two curves are selected and more than two     *)
(* colors have been drawn.                                                 *)
C18_Witness ==
    /\ last.op = "multiple_select" /\ ~last.raised /\ last.at < 0
    /\ Len(selected_lines) = 2 /\ Len(hl_labels) = 2
    /\ hl_next >= 3

(* C19: between events, for every entry (c, label) of hl_labels the        *)
(* label's color is the color held in the color range of curve c, and its  *)
(* text is the display label of curve c.                                   *)
C19_LabelMatchesCurve ==
    \A i \in 1..Len(hl_labels) :
        LET c == hl_labels[i][1]
            lbl == hl_labels[i][2]
        IN  /\ \A k \in CurveRange(c) : colors[k] = lbl.color
            /\ lbl.text = labels[c + 1]

====
